---- MODULE Spec2Model ----
(***************************************************************************)
(* State machine of the AITraffic client: the ImageUpload component (the   *)
(* four-slot upload store with its FileReader callbacks) and the App       *)
(* component (the analysis request coordinator), with the API service.     *)
(*                                                                         *)
(* React closures are modelled by value: a handler invoked by the user     *)
(* reads the state of the latest render; a FileReader onload callback      *)
(* keeps the `images` (or the `newImages` object) it closed over when the  *)
(* read was started.                                                       *)
(***************************************************************************)
EXTENDS Integers, Sequences, FiniteSets, TLC

(* ------------------------------ bounds --------------------------------- *)

\* number of distinct files the user can pick
NFiles == 2
\* largest number of files in one drop (5 reaches directions[4])
MaxDropLen == 5
\* largest number of read jobs (drops, individual uploads) pending at once
MaxPending == 1
\* largest number of user operations (drops, uploads, removals, submits) in a run
MaxOps == 4

(* --------------------------- values and helpers ------------------------ *)

\* JS null in an image slot; files are positive numbers
Null == 0

\* JS null of the `analysis` and `error` state
None == "null"

Files == 1..NFiles

\* const directions = ['north', 'south', 'east', 'west']
directions == <<"north", "south", "east", "west">>

DirSet == {directions[i] : i \in 1..Len(directions)}

\* the property name JS gives to newImages[undefined]
UndefinedKey == "undefined"

\* useState({north: null, south: null, east: null, west: null})
EmptyImages == [d \in DirSet |-> Null]

\* Object.keys order: the four directions as inserted, then any later key
KeyOrder == directions \o <<UndefinedKey>>

Min(S) == CHOOSE x \in S : \A y \in S : x <= y

\* Object.values(images).every(img => img !== null)
allImagesUploaded(imgs) == \A k \in DOMAIN imgs : imgs[k] # Null

\* obj[k] = v on a copy (a new key is added when k is not yet a property)
Put(imgs, k, v) ==
    [x \in (DOMAIN imgs) \cup {k} |-> IF x = k THEN v ELSE imgs[x]]

\* directions[index] with a 0-based index i-1; JS undefined past the end
DirAt(i) == IF i <= Len(directions) THEN directions[i] ELSE UndefinedKey

\* Object.keys(newImages).find(dir => !newImages[dir]) || directions[index]
FindDirection(imgs, i) ==
    LET empty == {n \in 1..Len(KeyOrder) :
                     /\ KeyOrder[n] \in DOMAIN imgs
                     /\ imgs[KeyOrder[n]] = Null}
    IN  IF empty # {} THEN KeyOrder[Min(empty)] ELSE DirAt(i)

\* acceptedFiles of a drop of n files: n distinct files, in their order
DropFiles(n) == [i \in 1..n |-> i]

RemoveAt(s, j) == [i \in 1..(Len(s) - 1) |-> IF i < j THEN s[i] ELSE s[i + 1]]

(* ------------------------------ state ---------------------------------- *)

VARIABLES
    images,      \* ImageUpload: const [images, setImages] = useState(...)
    appImages,   \* App: const [images, setImages] = useState(...)
    analysis,    \* App: analysis
    loading,     \* App: loading
    error,       \* App: error
    readers,     \* FileReader jobs whose onload has not run yet, in issue order
    requests,    \* analyzeTraffic calls awaiting api.post, in issue order
    lastOp,      \* history: the handler or callback that ran last
    ops          \* history: the number of user operations so far

vars == <<images, appImages, analysis, loading, error, readers, requests,
          lastOp, ops>>

\* one more user operation, within the bound of the run
UserOp == ops < MaxOps /\ ops' = ops + 1

Op(name, dir, n, done) ==
    [op |-> name, dir |-> dir, n |-> n, done |-> done]

Init ==
    /\ images = EmptyImages
    /\ appImages = EmptyImages
    /\ analysis = None
    /\ loading = FALSE
    /\ error = None
    /\ readers = <<>>
    /\ requests = <<>>
    /\ lastOp = Op("init", "", 0, TRUE)
    /\ ops = 0

(* --------------------------- App (coordinator) ------------------------- *)

\* 'Please upload images for all four directions'
ValidationMsg == "Please upload images for all four directions"

\* handleImagesUpload with a slip: the stored result is dropped as well
handleImagesUpload_ClearsAnalysis(uploadedImages) ==
    /\ appImages' = uploadedImages
    /\ error' = None
    /\ analysis' = None
    /\ UNCHANGED <<loading, requests>>

\* const handleImagesUpload = (uploadedImages) => { setImages; setError(null) }
handleImagesUpload(uploadedImages) ==
    /\ appImages' = uploadedImages
    /\ error' = None
    /\ UNCHANGED <<analysis, loading, requests>>

\* the FormData analyzeTraffic builds: one field per entry with a file
FormData(imgs) == [k \in {x \in DOMAIN imgs : imgs[x] # Null} |-> imgs[k]]

\* handleAnalyzeTraffic without its readiness check
handleAnalyzeTraffic_NoValidation ==
    /\ loading' = TRUE
    /\ error' = None
    /\ requests' = Append(requests, FormData(appImages))
    /\ UNCHANGED <<images, appImages, analysis, readers>>
    /\ lastOp' = Op("submit", "", 0, allImagesUploaded(appImages))

\* handleAnalyzeTraffic up to its await: validation, then the request is issued
handleAnalyzeTraffic ==
    /\ IF ~allImagesUploaded(appImages)
       THEN /\ error' = ValidationMsg
            /\ UNCHANGED <<loading, requests>>
       ELSE /\ loading' = TRUE
            /\ error' = None
            /\ requests' = Append(requests, FormData(appImages))
    /\ UNCHANGED <<images, appImages, analysis, readers>>
    /\ lastOp' = Op("submit", "", 0, allImagesUploaded(appImages))

\* the analyze button with only the readiness half of its disabled attribute
AnalyzeButtonEnabled_IgnoresLoading == allImagesUploaded(appImages)

\* disabled={!allImagesUploaded || loading}
AnalyzeButtonEnabled == allImagesUploaded(appImages) /\ ~loading

\* onClick={handleAnalyzeTraffic} of the analyze button
ClickAnalyze == UserOp /\ AnalyzeButtonEnabled /\ handleAnalyzeTraffic

\* handleAnalyzeTraffic invoked as a function, whatever the button shows
CallAnalyze == UserOp /\ handleAnalyzeTraffic

(* ------------------------------ API service ---------------------------- *)

Results == {"r1", "r2"}

\* DENSITY_LEVELS, each string as its sequence of characters
DENSITY_LEVELS ==
    [VERY_LOW  |-> <<"v", "e", "r", "y", "_", "l", "o", "w">>,
     LOW       |-> <<"l", "o", "w">>,
     MEDIUM    |-> <<"m", "e", "d", "i", "u", "m">>,
     HIGH      |-> <<"h", "i", "g", "h">>,
     VERY_HIGH |-> <<"v", "e", "r", "y", "_", "h", "i", "g", "h">>]

DensityLevels == {DENSITY_LEVELS[k] : k \in DOMAIN DENSITY_LEVELS}

SIGNAL_STATES == [RED |-> "red", YELLOW |-> "yellow", GREEN |-> "green"]

\* response.data of the two 2xx bodies: "r1" has the four directions in
\* every mapping; "r2" has no signal_states.west and a fifth vehicle count
ResultData(r) ==
    CASE r = "r1" ->
            [vehicle_counts  |-> [north |-> 12, south |-> 5, east |-> 8,
                                  west |-> 3],
             traffic_density |-> [north |-> DENSITY_LEVELS.HIGH,
                                  south |-> DENSITY_LEVELS.LOW,
                                  east  |-> DENSITY_LEVELS.MEDIUM,
                                  west  |-> DENSITY_LEVELS.VERY_LOW],
             signal_states   |-> [north |-> SIGNAL_STATES.GREEN,
                                  south |-> SIGNAL_STATES.RED,
                                  east  |-> SIGNAL_STATES.RED,
                                  west  |-> SIGNAL_STATES.RED]]
      [] OTHER ->
            [vehicle_counts  |-> [north |-> 12, south |-> 5, east |-> 8,
                                  west |-> 3, total |-> 28],
             traffic_density |-> [north |-> DENSITY_LEVELS.VERY_HIGH,
                                  south |-> DENSITY_LEVELS.VERY_LOW,
                                  east  |-> DENSITY_LEVELS.LOW,
                                  west  |-> DENSITY_LEVELS.HIGH],
             signal_states   |-> [north |-> SIGNAL_STATES.GREEN,
                                  south |-> SIGNAL_STATES.RED,
                                  east  |-> SIGNAL_STATES.GREEN]]

Statuses == {500}

\* what api.post can end with; hasError: the body has an error field
Responses ==
    [kind : {"ok"}, data : Results, status : {200}, hasError : {FALSE},
     error : {""}]
    \cup [kind : {"http_error"}, data : {None}, status : Statuses,
          hasError : {FALSE}, error : {""}]
    \cup [kind : {"http_error"}, data : {None}, status : Statuses,
          hasError : {TRUE}, error : {"", "model unavailable"}]
    \cup [kind : {"no_response", "setup_error"}, data : {None}, status : {0},
          hasError : {FALSE}, error : {""}]

StatusMsg(status) == CASE status = 500 -> "Server error: 500"
                       [] OTHER -> "Server error"

\* an interceptor that never reads the body of an error response
InterceptorMessage_StatusOnly(resp) ==
    CASE resp.kind = "http_error" -> StatusMsg(resp.status)
      [] resp.kind = "no_response" ->
            "No response from server. Please check if the backend is running."
      [] OTHER -> "Request failed. Please check your connection."

\* response interceptor, error branch: the message of the Error it throws
InterceptorMessage(resp) ==
    CASE resp.kind = "http_error" ->
            IF resp.hasError /\ resp.error # ""
            THEN resp.error
            ELSE StatusMsg(resp.status)
      [] resp.kind = "no_response" ->
            "No response from server. Please check if the backend is running."
      [] OTHER -> "Request failed. Please check your connection."

\* history of a settlement: the response api.post ended with
SettleOp(resp) ==
    [op |-> "settle", dir |-> "", n |-> 0, done |-> resp.kind = "ok",
     resp |-> resp]

\* a settlement that drops a success once an error was recorded meanwhile
Settle_DropsSuperseded(j, resp) ==
    /\ j \in 1..Len(requests)
    /\ IF resp.kind = "ok"
       THEN /\ analysis' = (IF error = None THEN resp.data ELSE analysis)
            /\ UNCHANGED error
       ELSE /\ error' = (IF InterceptorMessage(resp) # ""
                         THEN InterceptorMessage(resp)
                         ELSE "Failed to analyze traffic. Please try again.")
            /\ UNCHANGED analysis
    /\ loading' = FALSE
    /\ requests' = RemoveAt(requests, j)
    /\ UNCHANGED <<images, appImages, readers>>
    /\ lastOp' = SettleOp(resp)

\* a settlement whose failure clears the stored result
Settle_FailureClearsResult(j, resp) ==
    /\ j \in 1..Len(requests)
    /\ IF resp.kind = "ok"
       THEN /\ analysis' = resp.data
            /\ UNCHANGED error
       ELSE /\ error' = (IF InterceptorMessage(resp) # ""
                         THEN InterceptorMessage(resp)
                         ELSE "Failed to analyze traffic. Please try again.")
            /\ analysis' = None
    /\ loading' = FALSE
    /\ requests' = RemoveAt(requests, j)
    /\ UNCHANGED <<images, appImages, readers>>
    /\ lastOp' = SettleOp(resp)

\* handleAnalyzeTraffic after its await: try / catch / finally
Settle(j, resp) ==
    /\ j \in 1..Len(requests)
    /\ IF resp.kind = "ok"
       THEN /\ analysis' = resp.data
            /\ UNCHANGED error
       ELSE /\ error' = (IF InterceptorMessage(resp) # ""
                         THEN InterceptorMessage(resp)
                         ELSE "Failed to analyze traffic. Please try again.")
            /\ UNCHANGED analysis
    /\ loading' = FALSE
    /\ requests' = RemoveAt(requests, j)
    /\ UNCHANGED <<images, appImages, readers>>
    /\ lastOp' = SettleOp(resp)

(* --------------------------- ImageUpload (store) ----------------------- *)

Job(kind, newImages, dir, files, todo) ==
    [kind |-> kind, newImages |-> newImages, dir |-> dir, files |-> files,
     todo |-> todo]

\* const newImages = { ...images }; four files: every direction reset to null
DropNewImages(n) ==
    IF n = 4
    THEN [k \in DOMAIN images |-> IF k \in DirSet THEN Null ELSE images[k]]
    ELSE images

\* onDrop(acceptedFiles): one FileReader per file, sharing newImages
onDrop(files) ==
    /\ readers' = Append(readers,
                     Job("drop", DropNewImages(Len(files)), "", files,
                         1..Len(files)))
    /\ UNCHANGED <<images, appImages, analysis, loading, error, requests>>
    /\ lastOp' = Op("onDrop", "", Len(files), FALSE)

\* acceptedFiles.length === 4 ? directions[index] : find(...) || directions[index]
DropDirection(job, i) ==
    IF Len(job.files) = 4 THEN directions[i] ELSE FindDirection(job.newImages, i)

\* reader.onload of the file at position i of drop job j
DropOnload(j, i) ==
    /\ j \in 1..Len(readers)
    /\ readers[j].kind = "drop"
    /\ i \in readers[j].todo
    /\ LET job == readers[j]
           direction == DropDirection(job, i)
           newImages == Put(job.newImages, direction, job.files[i])
           todo == job.todo \ {i}
       IN  /\ images' = newImages
           /\ IF allImagesUploaded(newImages)
              THEN handleImagesUpload(newImages)
              ELSE UNCHANGED <<appImages, analysis, loading, error, requests>>
           /\ readers' = IF todo = {}
                         THEN RemoveAt(readers, j)
                         ELSE [readers EXCEPT ![j].newImages = newImages,
                                              ![j].todo = todo]
           /\ lastOp' = Op("dropOnload", direction, Len(job.files), todo = {})

\* removeImage(direction): the grid offers it on every filled entry of images
removeImage(direction) ==
    /\ direction \in DOMAIN images
    /\ images[direction] # Null
    /\ LET newImages == Put(images, direction, Null)
       IN  /\ images' = newImages
           /\ handleImagesUpload(newImages)
    /\ UNCHANGED readers
    /\ lastOp' = Op("remove", direction, 0, TRUE)

\* handleIndividualUpload(direction, event): the grid offers it on every
\* empty entry of images
handleIndividualUpload(direction, file) ==
    /\ direction \in DOMAIN images
    /\ images[direction] = Null
    /\ readers' = Append(readers, Job("single", images, direction, <<file>>, {1}))
    /\ UNCHANGED <<images, appImages, analysis, loading, error, requests>>
    /\ lastOp' = Op("upload", direction, 0, FALSE)

\* reader.onload of handleIndividualUpload, job j
SingleOnload(j) ==
    /\ j \in 1..Len(readers)
    /\ readers[j].kind = "single"
    /\ LET job == readers[j]
           newImages == Put(job.newImages, job.dir, job.files[1])
       IN  /\ images' = newImages
           /\ handleImagesUpload(newImages)
           /\ readers' = RemoveAt(readers, j)
           /\ lastOp' = Op("uploadOnload", job.dir, 0, TRUE)

(* --------------------------- specifications ---------------------------- *)

Drop ==
    /\ UserOp
    /\ Len(readers) < MaxPending
    /\ \E n \in 1..MaxDropLen : onDrop(DropFiles(n))

DropDecoded ==
    /\ \E j \in 1..Len(readers) : \E i \in 1..MaxDropLen : DropOnload(j, i)
    /\ UNCHANGED ops

Remove == UserOp /\ \E d \in DOMAIN images : removeImage(d)

Upload ==
    /\ UserOp
    /\ Len(readers) < MaxPending
    /\ \E d \in DOMAIN images : \E f \in Files : handleIndividualUpload(d, f)

UploadDecoded == (\E j \in 1..Len(readers) : SingleOnload(j)) /\ UNCHANGED ops

Settled ==
    /\ \E j \in 1..Len(requests) : \E resp \in Responses : Settle(j, resp)
    /\ UNCHANGED ops

\* the program as wired: every handler behind the control that offers it
Next ==
    \/ Drop
    \/ DropDecoded
    \/ Remove
    \/ Upload
    \/ UploadDecoded
    \/ ClickAnalyze
    \/ Settled

Spec == Init /\ [][Next]_vars

\* the same, with handleAnalyzeTraffic also callable as a function
NextDirect == Next \/ CallAnalyze

SpecDirect == Init /\ [][NextDirect]_vars

(* ------------------------------- claims -------------------------------- *)

\* the store's decode completions and removal: the steps that mutate UploadState
StoreMutations == {"dropOnload", "uploadOnload", "remove"}

Filled(imgs) == {d \in DirSet : imgs[d] # Null}

\* C1: in every reachable state the key set of the store's UploadState is
\* exactly {north, south, east, west}.
C1_KeySetFixed == DOMAIN images = DirSet

\* C2: a submit on an upload state with an empty slot issues no request and
\* records the validation error, whatever the coordinator was doing.
C2_IncompleteSubmitFails ==
    [][(lastOp'.op = "submit" /\ ~allImagesUploaded(appImages))
          => /\ error' = ValidationMsg
             /\ requests' = requests
             /\ loading' = loading
             /\ analysis' = analysis]_vars

\* a submit on an incomplete state was made while a request was in flight
C2_Witness ==
    /\ lastOp.op = "submit"
    /\ ~lastOp.done
    /\ ~allImagesUploaded(appImages)
    /\ loading
    /\ Len(requests) = 1
    /\ error = ValidationMsg

\* C3: at most one analysis request is in flight at any time.
C3_OneInFlight == Len(requests) <= 1

\* a request is in flight while the upload state is complete, so only the
\* button's loading check stands between the user and a second request
C3_Witness ==
    /\ Len(requests) = 1
    /\ loading
    /\ allImagesUploaded(appImages)
    /\ ops < MaxOps

\* {north: a, south: b, east: c, west: d} for files = [a, b, c, d]
BulkState(files) ==
    [d \in DirSet |-> files[CHOOSE i \in 1..Len(directions) : directions[i] = d]]

\* C4: when the last of the four decodes of a drop of [a, b, c, d] completes,
\* the store's state is {north: a, south: b, east: c, west: d}, for every
\* prior state and every completion order.
C4_BulkOfFour ==
    [][\A j \in 1..Len(readers) :
          (/\ readers[j].kind = "drop"
           /\ Len(readers[j].files) = 4
           /\ Cardinality(readers[j].todo) = 1
           /\ lastOp'.op = "dropOnload"
           /\ readers' = RemoveAt(readers, j))
          => images' = BulkState(readers[j].files)]_vars

\* C5: when the decode of assignSingle(d, f) completes, slot d becomes f and
\* every other slot holds the value the store held immediately before.
C5_SingleFrame ==
    [][\A j \in 1..Len(readers) :
          (/\ readers[j].kind = "single"
           /\ lastOp'.op = "uploadOnload"
           /\ readers' = RemoveAt(readers, j))
          => /\ images'[readers[j].dir] = readers[j].files[1]
             /\ \A k \in DOMAIN images \ {readers[j].dir} :
                   k \in DOMAIN images' /\ images'[k] = images[k]]_vars

\* C6: remove(d) empties slot d and leaves the other slots unchanged, and a
\* decode that was pending when remove(d) was called and that places its
\* file in another slot leaves slot d empty.
C6_RemoveFrame ==
    [][/\ lastOp'.op = "remove"
          => /\ images'[lastOp'.dir] = Null
             /\ \A k \in DOMAIN images \ {lastOp'.dir} :
                   k \in DOMAIN images' /\ images'[k] = images[k]
       /\ (/\ lastOp.op = "remove"
           /\ lastOp'.op \in {"dropOnload", "uploadOnload"}
           /\ lastOp'.dir # lastOp.dir)
          => images'[lastOp.dir] = Null]_vars

\* C7: isComplete() is true exactly when none of the four slots is empty, in
\* the store and in the coordinator's readiness check, and it is false right
\* after a remove.
C7_IsComplete ==
    /\ allImagesUploaded(images) <=> Filled(images) = DirSet
    /\ allImagesUploaded(appImages) <=> Filled(appImages) = DirSet
    /\ lastOp.op = "remove"
          => ~allImagesUploaded(images) /\ ~allImagesUploaded(appImages)

\* C8: right after every mutation of the store the consumer's copy of
\* UploadState equals the store's state.
C8_NotifiedOnEveryMutation ==
    lastOp.op \in StoreMutations => appImages = images

\* C9: a store mutation made while the coordinator is in Failed clears the
\* stored error, leaves the coordinator idle and issues no request.
C9_EditClearsFailure ==
    [][(error # None /\ ~loading /\ lastOp'.op \in StoreMutations)
          => /\ error' = None
             /\ ~loading'
             /\ requests' = requests]_vars

\* C10: the stored AnalysisResult changes only when a request settles; no
\* mutation of UploadState clears or changes it.
C10_ResultKeptOnEdit ==
    [][analysis' # analysis => lastOp'.op = "settle"]_vars

\* a store mutation was notified to the coordinator while a result is stored
C10_Witness ==
    /\ lastOp.op \in StoreMutations
    /\ appImages = images
    /\ analysis # None

\* C4, the four direction slots alone: they hold a, b, c, d when the last
\* decode of the drop completes (a key left by an earlier drop stays).
C4_FourSlotsAssigned ==
    [][\A j \in 1..Len(readers) :
          (/\ readers[j].kind = "drop"
           /\ Len(readers[j].files) = 4
           /\ Cardinality(readers[j].todo) = 1
           /\ lastOp'.op = "dropOnload"
           /\ readers' = RemoveAt(readers, j))
          => \A d \in DirSet : images'[d] = BulkState(readers[j].files)[d]]_vars

(* ------------------------------ C11 .. C20 ----------------------------- *)

\* the three mappings of a response body hold every direction
HasAllDirections(res) ==
    /\ DirSet \subseteq DOMAIN res.vehicle_counts
    /\ DirSet \subseteq DOMAIN res.traffic_density
    /\ DirSet \subseteq DOMAIN res.signal_states

\* C11: a 2xx response whose vehicle_counts, traffic_density or
\* signal_states lacks one of the four direction keys is rejected: the
\* settlement ends in a failure and that response is not stored as the
\* current result.
C11_MalformedRejected ==
    (/\ lastOp.op = "settle"
     /\ lastOp.resp.kind = "ok"
     /\ ~HasAllDirections(ResultData(lastOp.resp.data)))
    => (error # None /\ analysis # lastOp.resp.data)

NetworkFailureMsg ==
    "No response from server. Please check if the backend is running."

\* C12: a settlement with a non-2xx response ends in a failure whose
\* message is the body's error field when that field is present and not
\* empty, and the message derived from the status code otherwise; a
\* settlement with no response ends in a failure with the fixed
\* network-failure message, which is no message of a server.
C12_FailureClassified ==
    (lastOp.op = "settle" /\ lastOp.resp.kind # "ok")
    => /\ error # None
       /\ ~loading
       /\ lastOp.resp.kind = "http_error"
          => error = (IF lastOp.resp.hasError /\ lastOp.resp.error # ""
                      THEN lastOp.resp.error
                      ELSE StatusMsg(lastOp.resp.status))
       /\ lastOp.resp.kind = "no_response"
          => /\ error = NetworkFailureMsg
             /\ \A r \in Responses : r.hasError => error # r.error

\* a non-2xx response with an error field has settled
C12_Witness ==
    /\ lastOp.op = "settle"
    /\ lastOp.resp.kind = "http_error"
    /\ lastOp.resp.hasError
    /\ error = "model unavailable"

\* C12 as stated: the error field is the message whenever it is present
C12_ErrorFieldWhenPresent ==
    (/\ lastOp.op = "settle"
     /\ lastOp.resp.kind = "http_error"
     /\ lastOp.resp.hasError)
    => error = lastOp.resp.error

\* C13: every request issued carries exactly the four fields north, south,
\* east and west, each holding the file of that slot in the images given
\* to the submit, and no other field.
C13_FourFields ==
    [][Len(requests') > Len(requests)
       => requests'[Len(requests')] = [d \in DirSet |-> appImages[d]]]_vars

\* C13, the four direction fields alone: each holds the file of its slot
C13_DirectionFields ==
    [][Len(requests') > Len(requests)
       => \A d \in DirSet :
            /\ d \in DOMAIN requests'[Len(requests')]
            /\ requests'[Len(requests')][d] = appImages[d]]_vars

(* Scenario of C14: on the empty store, either one drop of the four files
   a, b, c, d or four individual uploads of a, b, c, d to north, south,
   east and west in that order; decodes complete in any order and any
   number of reads may be pending. *)

ScenarioFiles == DropFiles(Len(directions))

ScenarioDrop ==
    /\ ops = 0
    /\ UserOp
    /\ onDrop(ScenarioFiles)

ScenarioUpload ==
    /\ UserOp
    /\ ops < Len(directions)
    /\ ops > 0 => lastOp.op \in {"upload", "uploadOnload"}
    /\ \A j \in 1..Len(readers) : readers[j].kind = "single"
    /\ handleIndividualUpload(directions[ops + 1], ScenarioFiles[ops + 1])

NextScenario ==
    ScenarioDrop \/ DropDecoded \/ ScenarioUpload \/ UploadDecoded

SpecScenario == Init /\ [][NextScenario]_vars

\* every call of the scenario is issued and every decode has completed
ScenarioDone ==
    /\ readers = <<>>
    /\ \/ lastOp.op = "dropOnload"
       \/ lastOp.op = "uploadOnload" /\ ops = Len(directions)

\* C14: from the empty store, four individual uploads of a, b, c, d to
\* north, south, east, west end in the same final state as one drop of
\* <<a, b, c, d>>, whatever the order in which the decodes complete.
C14_SameAsBulk == ScenarioDone => images = BulkState(ScenarioFiles)

\* C14, the drop alone: it ends in {north: a, south: b, east: c, west: d}
C14_BulkFinal ==
    (ScenarioDone /\ lastOp.op = "dropOnload")
    => images = BulkState(ScenarioFiles)

\* the read job once the file at position k has been placed
AfterDecode(job, k) ==
    [job EXCEPT !.newImages =
        Put(job.newImages, DropDirection(job, k), job.files[k])]

\* C15: within one drop the direction a file populates is fixed by its
\* position and the state at the call, not by the order in which decodes
\* complete: whichever other file of the drop is placed first, a file
\* still to be placed gets the same direction.
C15_OrderIndependent ==
    \A j \in 1..Len(readers) :
        readers[j].kind = "drop"
        => \A i, k \in readers[j].todo :
             i # k => DropDirection(AfterDecode(readers[j], k), i)
                      = DropDirection(readers[j], i)

\* C15, drops of exactly four files: the direction is the position's
C15_FourFilesByPosition ==
    \A j \in 1..Len(readers) :
        (readers[j].kind = "drop" /\ Len(readers[j].files) = 4)
        => \A i, k \in readers[j].todo :
             i # k => DropDirection(AfterDecode(readers[j], k), i)
                      = directions[i]

\* the step delivers a notification of a call issued after read job j:
\* a removal made now, or the onload of a read job queued behind j
NotifiesLaterCall(j) ==
    \/ lastOp'.op = "remove"
    \/ \E k \in (j + 1)..Len(readers) :
         \/ /\ lastOp'.op = "uploadOnload"
            /\ readers' = RemoveAt(readers, k)
         \/ /\ lastOp'.op = "dropOnload"
            /\ allImagesUploaded(images')
            /\ readers[k].kind = "drop"
            /\ \/ readers' = RemoveAt(readers, k)
               \/ /\ Len(readers') = Len(readers)
                  /\ readers'[k] # readers[k]

\* C16: notifications reach App in the order of the calls that trigger
\* them: while the notification of an individual upload is still to come
\* (its read is pending), no call issued after it has its notification
\* delivered.
C16_NotificationOrder ==
    [][\A j \in 1..Len(readers) :
          readers[j].kind = "single" => ~NotifiesLaterCall(j)]_vars

(* The promise of api.post always settles: axios answers, fails, or gives
   up after its timeout of 30000 ms. *)
SpecFair == Spec /\ WF_vars(Settled)

\* C17, the request alone: a request in flight eventually settles and the
\* loading flag is cleared
C17_Settles == loading ~> (~loading /\ requests = <<>>)

\* C17: every issued request eventually settles with the loading flag
\* cleared, and after a failure the next edit of the store clears the
\* failure, so that a new submit can be issued: the coordinator stays
\* neither requesting nor failed.
C17_NeverStuck ==
    /\ loading ~> (~loading /\ requests = <<>>)
    /\ [][(/\ lastOp.op = "settle"
           /\ error # None
           /\ images' # images)
          => (error' = None /\ ~loading')]_vars

(* --------------------- derived totals and labels ----------------------- *)

\* Object.values(obj).reduce((sum, count) => sum + count, 0)
RECURSIVE SumValues(_, _)
SumValues(obj, keys) ==
    IF keys = {}
    THEN 0
    ELSE LET k == CHOOSE x \in keys : TRUE
         IN obj[k] + SumValues(obj, keys \ {k})

\* results panel
totalVehicles(res) == SumValues(res.vehicle_counts, DOMAIN res.vehicle_counts)

greenSignals(res) ==
    Cardinality({k \in DOMAIN res.signal_states :
                    res.signal_states[k] = "green"})

\* header of the page
HeaderTotalVehicles(res) ==
    SumValues(res.vehicle_counts, DOMAIN res.vehicle_counts)

HeaderGreenSignals(res) ==
    Cardinality({k \in DOMAIN res.signal_states :
                    res.signal_states[k] = "green"})

\* C18: for every stored result, the total shown is the sum of the vehicle
\* counts of the four directions, the green count shown is the number of
\* directions whose signal is green, and header and results panel show
\* the same two numbers.
C18_DerivedTotals ==
    analysis # None
    => LET res == ResultData(analysis)
       IN /\ DirSet \subseteq DOMAIN res.vehicle_counts
          /\ totalVehicles(res) = SumValues(res.vehicle_counts, DirSet)
          /\ greenSignals(res) =
                Cardinality({d \in DirSet \cap DOMAIN res.signal_states :
                                res.signal_states[d] = SIGNAL_STATES.GREEN})
          /\ HeaderTotalVehicles(res) = totalVehicles(res)
          /\ HeaderGreenSignals(res) = greenSignals(res)

\* C18, results with exactly the four directions in every mapping
C18_WellFormedTotals ==
    (analysis # None /\ DOMAIN ResultData(analysis).vehicle_counts = DirSet)
    => /\ totalVehicles(ResultData(analysis))
            = SumValues(ResultData(analysis).vehicle_counts, DirSet)
       /\ HeaderTotalVehicles(ResultData(analysis))
            = totalVehicles(ResultData(analysis))

LowerCase ==
    <<"a", "b", "c", "d", "e", "f", "g", "h", "i", "j", "k", "l", "m",
      "n", "o", "p", "q", "r", "s", "t", "u", "v", "w", "x", "y", "z">>

UpperCase ==
    <<"A", "B", "C", "D", "E", "F", "G", "H", "I", "J", "K", "L", "M",
      "N", "O", "P", "Q", "R", "S", "T", "U", "V", "W", "X", "Y", "Z">>

UpperChar(c) ==
    IF \E n \in 1..Len(LowerCase) : LowerCase[n] = c
    THEN UpperCase[CHOOSE n \in 1..Len(LowerCase) : LowerCase[n] = c]
    ELSE c

\* String.prototype.toUpperCase
toUpperCase(s) == [n \in 1..Len(s) |-> UpperChar(s[n])]

\* String.prototype.replace with a string pattern of one character: the
\* first occurrence only
replace(s, pattern, replacement) ==
    LET hits == {n \in 1..Len(s) : s[n] = pattern}
    IN IF hits = {}
       THEN s
       ELSE [n \in 1..Len(s) |-> IF n = Min(hits) THEN replacement ELSE s[n]]

\* a label that keeps its underscores
getDensityDisplay_NoReplace(density) == toUpperCase(density)

\* results panel
getDensityDisplay(density) == toUpperCase(replace(density, "_", " "))

\* traffic light of the intersection view
getDensityText(density) == toUpperCase(replace(density, "_", " "))

\* the level with every underscore a space and every letter upper-cased
SpacedUpper(s) ==
    [n \in 1..Len(s) |-> UpperChar(IF s[n] = "_" THEN " " ELSE s[n])]

\* C19: the label shown for a density level of DENSITY_LEVELS is the level
\* with every underscore replaced by a space and every letter upper-cased;
\* it holds no underscore. Checked on the levels of every stored result.
C19_DensityLabel ==
    analysis # None
    => \A d \in DOMAIN ResultData(analysis).traffic_density :
         LET level == ResultData(analysis).traffic_density[d]
         IN level \in DensityLevels
            => /\ getDensityDisplay(level) = SpacedUpper(level)
               /\ getDensityText(level) = SpacedUpper(level)
               /\ \A n \in 1..Len(level) : getDensityDisplay(level)[n] # "_"

\* every level of DENSITY_LEVELS occurs in a result that gets stored
C19_LevelsCovered ==
    DensityLevels \subseteq
        {ResultData(r).traffic_density[d] :
            r \in Results, d \in DirSet}

\* a stored result shows VERY HIGH for the level very_high
C19_Witness ==
    /\ analysis = "r2"
    /\ ResultData(analysis).traffic_density.north = DENSITY_LEVELS.VERY_HIGH
    /\ getDensityDisplay(ResultData(analysis).traffic_density.north)
         = <<"V", "E", "R", "Y", " ", "H", "I", "G", "H">>

\* the first of north, south, east, west that is empty in imgs, or the
\* direction at position i when none is empty
FirstEmptyDirection(imgs, i) ==
    LET empty == {n \in 1..Len(directions) : imgs[directions[n]] = Null}
    IN IF empty # {} THEN directions[Min(empty)] ELSE directions[i]

\* C20: a drop of fewer than four files puts each file into the first
\* direction that is empty, in the order north, south, east, west, when
\* the file is placed, and into the direction at the file's own position
\* only when no slot is empty; every other slot is left unchanged.
C20_FirstEmptyRule ==
    [][\A j \in 1..Len(readers) : \A i \in 1..MaxDropLen :
          (/\ readers[j].kind = "drop"
           /\ Len(readers[j].files) < 4
           /\ DropOnload(j, i))
          => images' = Put(images, FirstEmptyDirection(images, i),
                           readers[j].files[i])]_vars

\* C20 with the store unchanged since the drop: the rule holds
C20_RuleOnUnchangedStore ==
    [][\A j \in 1..Len(readers) : \A i \in 1..MaxDropLen :
          (/\ readers[j].kind = "drop"
           /\ Len(readers[j].files) < 4
           /\ readers[j].newImages = images
           /\ DOMAIN images = DirSet
           /\ DropOnload(j, i))
          => images' = Put(images, FirstEmptyDirection(images, i),
                           readers[j].files[i])]_vars

(* ------------------------------ C21 .. C23 ----------------------------- *)

\* C21: whenever no decode is pending, App's copy of the images equals the
\* images of the upload store, so App takes the intersection as ready
\* exactly when the store is complete and a submit sends the files the
\* store holds.
C21_CopyAgrees ==
    readers = <<>>
    => /\ appImages = images
       /\ allImagesUploaded(appImages) <=> allImagesUploaded(images)

\* C21, readiness alone: with no decode pending App is ready exactly when
\* the store is complete, and then holds the store's files
C21_ReadinessAgrees ==
    readers = <<>>
    => /\ allImagesUploaded(appImages) <=> allImagesUploaded(images)
       /\ allImagesUploaded(appImages) => appImages = images

C23_ResultWrittenBySuccessOnly ==
    [][/\ analysis' # analysis
          => (lastOp'.op = "settle" /\ lastOp'.resp.kind = "ok")
       /\ (\/ lastOp'.op = "submit" /\ ~lastOp'.done
           \/ lastOp'.op = "settle" /\ lastOp'.resp.kind # "ok")
          => (analysis' = analysis /\ error' # None)]_vars

\* a request failed while a result was stored: result and error are both
\* present
C23_Witness ==
    /\ lastOp.op = "settle"
    /\ lastOp.resp.kind # "ok"
    /\ analysis # None
    /\ error # None

====
